---- MODULE Spec2Model ----
(***************************************************************************)
(* A model of the ultraprocesor3000 virtual processor: the dispatch loop   *)
(* of functools::exec, the instruction parser, the saturating registers    *)
(* and the memory module with its stack and heap regions.                  *)
(*                                                                         *)
(* Text is modelled at character level: a line is a sequence of one-       *)
(* character strings, split on ' ' as functools::split does, and numeric   *)
(* tokens are converted digit by digit as std::stoi does.                  *)
(***************************************************************************)
EXTENDS Integers, Sequences, FiniteSets, TLC

\* ------------------------------------------------------------------------
\* Program constants (values.hpp, hardware.hpp)
\* ------------------------------------------------------------------------
MEMORY_SIZE == 256
STACK_SIZE == 16
STACK_POINTER_SIZE == 2
BITS_IN_BYTE == 8
FIRST_ITEM_INDEX == 0
FIRST_OPERAND_INDEX == 1
SEVERAL_OPERANDS_VECTOR_SIZE == 3
NULL_INTEGER_VALUE == 0
SUCCESS_EXIT_STATUS == 0
FAILURE_EXIT_STATUS == 1
PROCESSOR_REGISTER_MIN_VALUE == 0
PROCESSOR_REGISTER_MAX_VALUE == 65535

\* Widths of the integer types the code computes in.
UINT8_MOD == 256
UINT16_MOD == 65536
INT_MAX == 2147483647

\* Exit status of a process ended by abort() (SIGABRT): std::terminate after
\* an uncaught exception, or the allocator detecting a corrupted heap.
ABORT_EXIT_STATUS == 128 + 6

\* Error messages written to cerr (values.hpp).
UNKNOWN_OPCODE_ERROR == "Unknown opcode: "
WRITING_TO_STACK_REGION_ERROR == "Error: writing to stack region "
READING_FROM_STACK_REGION_ERROR == "Error: reading from stack region "
STACK_OVERFLOW_ERROR == "Error: stack overflow"
STACK_UNDERFLOW_ERROR == "Error: stack underflow"
NULLPTR_OPERAND_ERROR == "Error: working with nullptr operand"
INVALID_FIRST_OPERAND_TYPE_ERROR == "Error: invalid first operand"
INVALID_SECOND_OPERAND_TYPE_ERROR == "Error: invalid second operand"
INVALID_REGISTER_ID_ERROR == "Invalid register ID: "

\* ------------------------------------------------------------------------
\* Text: characters, tokens, lines
\* ------------------------------------------------------------------------
DELIMITER_SYMBOL == " "

Digits == <<"0", "1", "2", "3", "4", "5", "6", "7", "8", "9">>

IsDigit(c) == \E i \in 1..Len(Digits) : Digits[i] = c

DigitVal(c) == (CHOOSE i \in 1..Len(Digits) : Digits[i] = c) - 1

\* The characters std::isspace accepts that a token can still hold once the
\* line has been split on ' '.
IsSpace(c) == c \in {"\t", "\n", "\r", "\f"}

\* functools::split: the tokens getline(ss, token, delimiter) yields. A
\* delimiter ends a token, also an empty one; at the end of the string the
\* last token is kept only when it holds a character.
RECURSIVE SplitFrom(_, _, _, _, _)
SplitFrom(str, delimiter, i, token, tokens) ==
    IF i > Len(str)
    THEN IF token # <<>> THEN Append(tokens, token) ELSE tokens
    ELSE IF str[i] = delimiter
         THEN SplitFrom(str, delimiter, i + 1, <<>>, Append(tokens, token))
         ELSE SplitFrom(str, delimiter, i + 1, Append(token, str[i]), tokens)

split(str, delimiter) == SplitFrom(str, delimiter, 1, <<>>, <<>>)

\* std::stoi(token): skips leading white space, takes an optional sign and
\* then the longest run of decimal digits. No digit: std::invalid_argument.
\* A value outside int: std::out_of_range. Both are reported as "throw".
RECURSIVE SkipSpace(_, _)
SkipSpace(tok, i) ==
    IF i <= Len(tok) /\ IsSpace(tok[i]) THEN SkipSpace(tok, i + 1) ELSE i

\* The run of digits is accumulated on the negative side, where the whole
\* range of int fits; `over` is set once the magnitude exceeds INT_MAX + 1.
INT_MIN == 0 - INT_MAX - 1

RECURSIVE DigitsFrom(_, _, _, _, _)
DigitsFrom(tok, i, acc, n, over) ==
    IF i <= Len(tok) /\ IsDigit(tok[i])
    THEN LET d == DigitVal(tok[i])
             fits == /\ ~over
                     /\ \/ acc > 0 - (INT_MAX \div 10)
                        \/ acc = 0 - (INT_MAX \div 10) /\ d <= (INT_MAX % 10) + 1
         IN  DigitsFrom(tok, i + 1, IF fits THEN acc * 10 - d ELSE acc, n + 1, ~fits)
    ELSE [negated |-> acc, count |-> n, over |-> over]

stoi(tok) ==
    LET s == SkipSpace(tok, 1)
        neg == s <= Len(tok) /\ tok[s] = "-"
        signed == s <= Len(tok) /\ tok[s] \in {"-", "+"}
        d == DigitsFrom(tok, IF signed THEN s + 1 ELSE s, 0, 0, FALSE)
    IN  IF d.count = 0 \/ d.over \/ (~neg /\ d.negated = INT_MIN)
        THEN [throw |-> TRUE, value |-> 0]
        ELSE [throw |-> FALSE, value |-> IF neg THEN d.negated ELSE 0 - d.negated]

\* The conversion clamping to the ends of the 16-bit range.
ToUint16_clamped(n) == IF n > 65535 THEN 65535 ELSE IF n < 0 THEN 0 ELSE n

\* static_cast<uint16_t>(int) and static_cast<uint8_t>(uint16_t)
ToUint16(n) == n % UINT16_MOD

\* The cast to uint8_t left out: the value keeps its 16 bits.
ToUint8_wide(n) == n

ToUint8(n) == n % UINT8_MOD

\* ------------------------------------------------------------------------
\* Instruction parser (insctructions.cpp)
\* ------------------------------------------------------------------------
T_SETv == <<"S", "E", "T", "v">>
T_SETr == <<"S", "E", "T", "r">>
T_ADDv == <<"A", "D", "D", "v">>
T_ADDr == <<"A", "D", "D", "r">>
T_SUBv == <<"S", "U", "B", "v">>
T_SUBr == <<"S", "U", "B", "r">>
T_IFNZ == <<"I", "F", "N", "Z">>
T_PRINT == <<"P", "R", "I", "N", "T">>
T_PUSH == <<"P", "U", "S", "H">>
T_POP == <<"P", "O", "P">>
T_LOAD == <<"L", "O", "A", "D">>
T_STORE == <<"S", "T", "O", "R", "E">>

\* OPCODES_MAP: mnemonic -> Opcode, as a set of pairs.
OPCODES_MAP ==
    { <<T_SETv, "SETv">>, <<T_SETr, "SETr">>, <<T_ADDv, "ADDv">>,
      <<T_ADDr, "ADDr">>, <<T_SUBv, "SUBv">>, <<T_SUBr, "SUBr">>,
      <<T_IFNZ, "IFNZ">>, <<T_PRINT, "PRINT">>, <<T_PUSH, "PUSH">>,
      <<T_POP, "POP">>, <<T_LOAD, "LOAD">>, <<T_STORE, "STORE">> }

\* RegistersManager::REGISTERS_SYMBOLS, a std::set<string>: listed in the
\* order the set iterates, which is the lexical order of the symbols.
REGISTERS_SYMBOLS == << <<"a">>, <<"b">>, <<"c">>, <<"d">> >>

\* The table of names with its first two entries exchanged.
register_names_swapped == << <<"b">>, <<"a">>, <<"c">>, <<"d">> >>

\* functools::get_register_by_id's table of names.
register_names == << <<"a">>, <<"b">>, <<"c">>, <<"d">> >>

RegisterNames == {REGISTERS_SYMBOLS[i] : i \in 1..Len(REGISTERS_SYMBOLS)}

symbols_contains(token) ==
    \E i \in 1..Len(REGISTERS_SYMBOLS) : REGISTERS_SYMBOLS[i] = token

\* distance(symbols.begin(), symbols.find(token))
symbols_distance(token) ==
    (CHOOSE i \in 1..Len(REGISTERS_SYMBOLS) : REGISTERS_SYMBOLS[i] = token) - 1

\* An operand slot: nullptr, or an Operand {type, parsed}.
nullptr == [type |-> "nullptr", parsed |-> 0]

\* parse_opcode: the first token, looked up in OPCODES_MAP.
opcode_token(raw) == split(raw, DELIMITER_SYMBOL)[FIRST_ITEM_INDEX + 1]

opcode_known(raw) ==
    LET opcode == opcode_token(raw)
    IN  \E e \in OPCODES_MAP : e[1] = opcode

parse_opcode(raw) ==
    LET opcode == opcode_token(raw)
    IN  (CHOOSE e \in OPCODES_MAP : e[1] = opcode)[2]

\* The operand the constructor's loop builds from one token.
ParseOperand(token) ==
    IF symbols_contains(token)
    THEN [type |-> "REGISTER", parsed |-> ToUint16(symbols_distance(token))]
    ELSE [type |-> "NUMERIC", parsed |-> ToUint16(stoi(token).value)]

\* Whether building the operand throws (std::stoi on a non-register token).
OperandThrows(token) == ~symbols_contains(token) /\ stoi(token).throw

\* The loop without its break: a slot with no token behind it is given the
\* numeric operand 0.
OperandSlots_defaulted(raw) ==
    LET tokens == split(raw, DELIMITER_SYMBOL)
        items == SEVERAL_OPERANDS_VECTOR_SIZE - 1
    IN  [i \in 0..(items - 1) |->
            IF FIRST_OPERAND_INDEX + i >= Len(tokens)
            THEN [type |-> "NUMERIC", parsed |-> 0]
            ELSE ParseOperand(tokens[FIRST_OPERAND_INDEX + i + 1])]

\* The operand slots the loop of Instruction::Instruction fills: slot i takes
\* token FIRST_OPERAND_INDEX + i, and the loop breaks at the first index
\* beyond the tokens.
OperandSlots(raw) ==
    LET tokens == split(raw, DELIMITER_SYMBOL)
        items == SEVERAL_OPERANDS_VECTOR_SIZE - 1
    IN  [i \in 0..(items - 1) |->
            IF FIRST_OPERAND_INDEX + i >= Len(tokens)
            THEN nullptr
            ELSE ParseOperand(tokens[FIRST_OPERAND_INDEX + i + 1])]

\* Whether the constructor throws while filling the slots.
InstructionThrows(raw) ==
    LET tokens == split(raw, DELIMITER_SYMBOL)
        items == SEVERAL_OPERANDS_VECTOR_SIZE - 1
    IN  \E i \in 0..(items - 1) :
            /\ FIRST_OPERAND_INDEX + i < Len(tokens)
            /\ OperandThrows(tokens[FIRST_OPERAND_INDEX + i + 1])

\* ------------------------------------------------------------------------
\* Registers (hardware.cpp, software.cpp)
\* ------------------------------------------------------------------------
\* is_overflow with the sum left in int, as reg + number is before it is
\* stored in a uint16_t.
is_overflow_promoted(reg, number) == reg + number < reg

\* functools::is_overflow: the sum is computed in uint16_t.
is_overflow(reg, number) ==
    LET sum == (reg + number) % UINT16_MOD
    IN  sum < reg

\* is_underflow with its arguments exchanged.
is_underflow_swapped(reg, number) == number < reg

\* functools::is_underflow
is_underflow(reg, number) == reg < number

\* Register::operator+=
RegisterAdd(register_value, value) ==
    IF ~is_overflow(register_value, value)
    THEN (register_value + value) % UINT16_MOD
    ELSE PROCESSOR_REGISTER_MAX_VALUE

\* Register::operator-=
RegisterSub(register_value, value) ==
    IF ~is_underflow(register_value, value)
    THEN (register_value - value) % UINT16_MOD
    ELSE PROCESSOR_REGISTER_MIN_VALUE

\* functools::get_register_by_id: whether the id names a register, and the
\* name it resolves to.
\* The test with the last entry of the table left out.
valid_register_id_strict(id) == id < Len(register_names) - 1

valid_register_id(id) == id < Len(register_names)

\* The lookup off by one: each id resolves to the register after its own.
get_register_by_id_shifted(id) ==
    register_names[((id + 1) % Len(register_names)) + 1]

get_register_by_id(id) == register_names[id + 1]

\* ------------------------------------------------------------------------
\* Program texts
\* ------------------------------------------------------------------------
\* The decimal numeral of n, as a program text writes it and as operator<<
\* writes an unsigned integer.
RECURSIVE Dec(_)
Dec(n) ==
    IF n < 10 THEN <<Digits[n + 1]>>
    ELSE Dec(n \div 10) \o <<Digits[(n % 10) + 1]>>

Ra == <<"a">>
Rb == <<"b">>
Rc == <<"c">>
Rd == <<"d">>

\* Lines of one, two and three fields separated by single spaces.
L1(m) == m

L2(m, x) == m \o <<DELIMITER_SYMBOL>> \o x

L3(m, x, y) == m \o <<DELIMITER_SYMBOL>> \o x \o <<DELIMITER_SYMBOL>> \o y

EmptyLine == <<>>

\* All programs of at most n lines over a set of lines.
ProgramsOver(lines, n) == UNION {[1..k -> lines] : k \in 0..n}

\* The end-to-end scenarios of the specification, and programs that take the
\* loop through every opcode, every fatal exit and the end of the file.
Scenario1 == <<L3(T_SETv, Ra, Dec(5)), L3(T_ADDv, Ra, Dec(10)), L2(T_PRINT, Ra)>>

Scenario2 == <<L3(T_SETv, Ra, Dec(65000)), L3(T_ADDv, Ra, Dec(1000)), L2(T_PRINT, Ra)>>

Scenario3 == <<L3(T_SETv, Ra, Dec(0)), L2(T_IFNZ, Ra), L3(T_SETv, Rb, Dec(1)), L2(T_PRINT, Rb)>>

Scenario4 ==
    <<L3(T_SETv, Ra, Dec(42)), L2(T_PUSH, Ra), L3(T_SETv, Ra, Dec(0)),
      L2(T_POP, Ra), L2(T_PRINT, Ra)>>

Scenario5 ==
    <<L3(T_SETv, Ra, Dec(7)), L3(T_STORE, Dec(20), Ra), L3(T_LOAD, Dec(20), Rb),
      L2(T_PRINT, Rb)>>

RegisterMoves ==
    <<L3(T_SETv, Ra, Dec(9)), L3(T_SETr, Rb, Ra), L3(T_ADDr, Rb, Ra),
      L3(T_SUBv, Rb, Dec(4)), L3(T_SUBr, Rb, Ra), EmptyLine, L2(T_PRINT, Rb)>>

UnknownMnemonic == <<L2(<<"F", "O", "O">>, <<"x">>), L2(T_PRINT, Ra)>>

BadNumber == <<L3(T_SETv, Ra, <<"x", "1">>), L2(T_PRINT, Ra)>>

CoverPrograms ==
    {Scenario1, Scenario2, Scenario3, Scenario4, Scenario5, RegisterMoves,
     UnknownMnemonic, BadNumber}

\* Arithmetic: values at and around the ends of the 16-bit range.
MaxArithLen == 3

ArithValues == {0, 1, 30000, 65535}

ArithLines ==
    {L3(T_SETv, Ra, Dec(v)) : v \in {1, 40000, 65535}}
    \cup {L3(T_ADDv, Ra, Dec(v)) : v \in ArithValues}
    \cup {L3(T_SUBv, Ra, Dec(v)) : v \in ArithValues}
    \cup {L3(T_SETr, Rb, Ra), L3(T_ADDr, Ra, Rb), L3(T_SUBr, Ra, Rb),
          L3(T_ADDr, Ra, Ra), L3(T_SUBr, Ra, Ra)}

ArithPrograms == ProgramsOver(ArithLines, MaxArithLen) \cup CoverPrograms

\* Stack: short programs of pushes and pops, runs of pushes up to and past
\* the capacity of the stack region, and three pushes and pops interleaved
\* with other instructions.
MaxStackLen == 4

MaxPushes == 9

StackLines ==
    {L3(T_SETv, Ra, Dec(513)), L3(T_ADDv, Ra, Dec(1)), L2(T_PUSH, Ra),
     L2(T_POP, Rb), L2(T_POP, Ra)}

PushRun(n) == <<L3(T_SETv, Ra, Dec(513))>> \o [i \in 1..n |-> L2(T_PUSH, Ra)]

PushRuns ==
    {PushRun(n) : n \in 0..MaxPushes}
    \cup {PushRun(n) \o <<L2(T_POP, Rb), L2(T_PUSH, Ra)>> : n \in 0..MaxPushes}

Lifo3 ==
    <<L3(T_SETv, Ra, Dec(258)), L2(T_PUSH, Ra), L3(T_ADDv, Ra, Dec(1)),
      L2(T_PUSH, Ra), L3(T_STORE, Dec(20), Ra), L3(T_ADDv, Ra, Dec(1)),
      L2(T_PUSH, Ra), L2(T_IFNZ, Ra), L2(T_POP, Rb), L2(T_PRINT, Rb),
      L2(T_POP, Rc), L3(T_LOAD, Dec(20), Ra), L2(T_POP, Rd)>>

StackPrograms ==
    ProgramsOver(StackLines, MaxStackLen) \cup PushRuns \cup {Lifo3}
    \cup CoverPrograms

\* Heap: addresses at both ends of the heap region, the last address of the
\* 8-bit space, addresses inside the stack region, and operands beyond eight
\* bits.
MaxHeapLen == 3

HeapAddresses == {15, 16, 20, 21, 254, 255, 261, 276}

HeapLines ==
    {L3(T_SETv, Ra, Dec(7)), L3(T_SETv, Ra, Dec(65535))}
    \cup {L3(T_STORE, Dec(n), Ra) : n \in HeapAddresses}
    \cup {L3(T_LOAD, Dec(n), Rb) : n \in HeapAddresses}

\* Two words stored one byte apart, and the word at the lower address read
\* back.
Overlap ==
    <<L3(T_SETv, Ra, Dec(4660)), L3(T_SETv, Rc, Dec(43981)),
      L3(T_STORE, Dec(20), Ra), L3(T_STORE, Dec(21), Rc),
      L3(T_LOAD, Dec(20), Rb), L2(T_PRINT, Rb)>>

HeapPrograms == ProgramsOver(HeapLines, MaxHeapLen) \cup {Overlap} \cup CoverPrograms

\* Control flow: IFNZ before every kind of line, empty lines, lines that do
\* not parse.
MaxLen == 4

ControlLines ==
    {L3(T_SETv, Ra, Dec(1)), L3(T_SETv, Rb, Dec(1)), L3(T_SETv, Ra, Dec(0)),
     L2(T_IFNZ, Ra), L2(T_PRINT, Rb), EmptyLine,
     L2(<<"F", "O", "O">>, <<"x">>), L3(T_SETv, Rb, <<"x", "1">>),
     L2(T_PUSH, Rb)}

ControlPrograms == ProgramsOver(ControlLines, MaxLen) \cup CoverPrograms

\* Operands: every opcode without its first operand, every two-operand
\* opcode without its second, operands of the wrong kind and operand tokens
\* that are not numbers, before a line whose effect shows.
MaxOperandLen == 2

Mnemonics == {e[1] : e \in OPCODES_MAP}

TwoOperandMnemonics ==
    {T_SETv, T_SETr, T_ADDv, T_ADDr, T_SUBv, T_SUBr, T_LOAD, T_STORE}

FirstOperandOf(m) == IF m \in {T_LOAD, T_STORE} THEN Dec(20) ELSE Ra

\* Lines whose operands are all there but of a kind the opcode's case does
\* not accept: a number where the case wants a register, or the reverse.
KindLines ==
    {L3(T_SETv, Dec(5), Dec(3)), L3(T_SETv, Ra, Rb), L3(T_SETr, Ra, Dec(5)),
     L3(T_SETr, Dec(5), Ra), L3(T_ADDv, Ra, Rb), L3(T_ADDr, Ra, Dec(5)),
     L3(T_SUBv, Ra, Rb), L3(T_SUBr, Ra, Dec(5)), L2(T_IFNZ, Dec(0)),
     L2(T_PRINT, Dec(5)), L2(T_PUSH, Dec(7)), L2(T_POP, Dec(3)),
     L3(T_LOAD, Ra, Rb), L3(T_LOAD, Dec(20), Dec(5)), L3(T_STORE, Ra, Rb),
     L3(T_STORE, Dec(20), Dec(5))}

\* Lines with an operand token that is neither a register symbol nor a run
\* of decimal digits: letters, digits followed by letters, a signed number.
MalformedLines ==
    {L3(T_SETv, Ra, <<"x", "1">>), L3(T_SETv, Ra, <<"1", "x">>),
     L3(T_SETv, Ra, <<"-", "5">>), L3(T_LOAD, <<"x">>, Rb)}

OperandLines ==
    {L1(m) : m \in Mnemonics}
    \cup {L2(m, FirstOperandOf(m)) : m \in TwoOperandMnemonics}
    \cup {L3(T_SETv, Ra, Dec(3)), L2(T_PRINT, Ra)}
    \cup KindLines \cup MalformedLines

OperandPrograms == ProgramsOver(OperandLines, MaxOperandLen) \cup CoverPrograms

\* Registers: each of the four registers set, copied and printed.
MaxRegisterLen == 3

RegisterValues == {7, 65535}

RegisterLines ==
    {L3(T_SETv, r, Dec(v)) : r \in {Ra, Rb, Rc, Rd}, v \in RegisterValues}
    \cup {L2(T_PRINT, r) : r \in {Ra, Rb, Rc, Rd}}
    \cup {L3(T_SETr, Ra, Rd), L3(T_SETr, Rc, Rb)}

RegisterPrograms == ProgramsOver(RegisterLines, MaxRegisterLen) \cup CoverPrograms

\* Immediates: operand tokens whose value lies outside 0..65535, up to and
\* past both ends of the range of int.
MaxImmediateLen == 3

\* The numeral of INT_MAX + 1.
IntMaxPlusOne == <<"2", "1", "4", "7", "4", "8", "3", "6", "4", "8">>

ImmediateTokens ==
    {Dec(7), Dec(65535), Dec(65536), Dec(65541), Dec(70000), Dec(2147483647),
     IntMaxPlusOne, <<"-">> \o Dec(5), <<"-">> \o IntMaxPlusOne}

ImmediateLines ==
    {L3(T_SETv, Ra, t) : t \in ImmediateTokens}
    \cup {L3(T_ADDv, Ra, Dec(70000)), L3(T_ADDv, Ra, Dec(65536)),
          L3(T_SUBv, Ra, Dec(65541)), L2(T_PRINT, Ra)}

ImmediatePrograms ==
    ProgramsOver(ImmediateLines, MaxImmediateLen) \cup CoverPrograms

\* Fields: lines of one to five fields, with fields after the third that are
\* registers, numbers and text that is neither, a line that ends in the
\* delimiter and a line with two delimiters in a row.
MaxFieldLen == 2

L4(m, x, y, z) == L3(m, x, y) \o <<DELIMITER_SYMBOL>> \o z

FieldLines ==
    {L1(T_SETv), L1(T_PRINT), L1(T_PUSH), L1(T_LOAD),
     L2(T_SETv, Ra), L2(T_PRINT, Ra), L2(T_PUSH, Ra), L2(T_LOAD, Dec(20)),
     L3(T_SETv, Ra, Dec(5)), L3(T_SETr, Rb, Ra), L3(T_STORE, Dec(20), Ra),
     L4(T_SETv, Ra, Dec(5), Rb), L4(T_SETv, Rb, Dec(6), <<"x", "1">>),
     L4(T_ADDv, Ra, Dec(1), Dec(2)), L4(T_PRINT, Ra, Rb, Rc),
     L4(T_PUSH, Rb, Dec(7), Dec(9)) \o <<DELIMITER_SYMBOL>> \o Dec(9),
     L2(T_PRINT, Rb) \o <<DELIMITER_SYMBOL>>,
     T_SETv \o <<DELIMITER_SYMBOL, DELIMITER_SYMBOL>> \o Ra}

FieldPrograms == ProgramsOver(FieldLines, MaxFieldLen) \cup CoverPrograms

\* Every line that occurs in a program text of the families above.
LinesOf(programs) == UNION {{p[i] : i \in 1..Len(p)} : p \in programs}

ProgramLines ==
    ArithLines \cup StackLines \cup HeapLines \cup ControlLines \cup OperandLines
    \cup RegisterLines \cup ImmediateLines \cup FieldLines
    \cup LinesOf(CoverPrograms \cup PushRuns \cup {Lifo3, Overlap})

\* What the loop body does with a line before the switch: the empty-line
\* test, then Instruction instr(line), whose member initialiser runs
\* parse_opcode (and exits on an unknown mnemonic) before the constructor
\* body parses the operands (and may throw).
Decode(raw) ==
    IF raw = <<>>
    THEN [kind |-> "empty", opcode |-> "", operands |-> <<>>]
    ELSE IF ~opcode_known(raw)
    THEN [kind |-> "unknown", opcode |-> "", operands |-> <<>>]
    ELSE IF InstructionThrows(raw)
    THEN [kind |-> "throws", opcode |-> parse_opcode(raw), operands |-> <<>>]
    ELSE [kind |-> "instruction", opcode |-> parse_opcode(raw),
          operands |-> OperandSlots(raw)]

\* Decode, tabulated over the lines of the program texts.
Decoded == [l \in ProgramLines |-> Decode(l)]

\* ------------------------------------------------------------------------
\* State
\* ------------------------------------------------------------------------
VARIABLES
    program,        \* the lines of the program file (software.cpp:53, ifstream file)
    cursor,         \* how many lines getline has taken from the file (software.cpp:62)
    line,           \* exec's local `line`: the line read last (software.cpp:60)
    status,         \* RUNNING; HALTED_OK (exec returned); HALTED_ERROR (exit(1));
                    \* ABORTED (the process was ended abnormally)
    exit_status,    \* the process exit status, -1 while running (main.cpp:48-58)
    cerr,           \* the messages written to standard error, each with the
                    \* address or token streamed after it
    cout,           \* the lines written to standard output, each the text
                    \* operator<< produced before endl (software.cpp:148)
    registers,      \* Register::register_value by register name (hardware.hpp:30)
    MEM,            \* the bytes written at MEM + i, by index i (memory.hpp:37);
                    \* an index outside its domain has never been written
    stack_pointer,  \* Memory::stack_pointer (memory.cpp:25)
    pushed,         \* history variable: the words handed to Memory::push and
                    \* not yet taken by Memory::pop, oldest first
    first_run       \* history variable: empty, or the outcome of the run of
                    \* the program text as given, kept while the process
                    \* runs again on the text without its empty lines

vars == <<program, cursor, line, status, exit_status, cerr, cout,
          registers, MEM, stack_pointer, pushed, first_run>>

machine == <<registers, MEM, stack_pointer, cout, pushed>>

\* ------------------------------------------------------------------------
\* Memory (memory.cpp)
\* ------------------------------------------------------------------------
\* Memory::Memory(const uint8_t nbytes) is called with get_memory_size(),
\* a size_t: the argument is converted to uint8_t before new uint8_t[nbytes].
nbytes == ToUint8(MEMORY_SIZE)

\* Whether MEM[i] lies inside the array that was allocated.
InBuffer(i) == i < nbytes

\* The values a byte that holds no determinate value can be read as.
IndeterminateBytes == {0, 165}

\* What reading MEM[i] can yield. new uint8_t[nbytes] leaves the bytes
\* uninitialised, so a byte never written reads as an indeterminate value;
\* a byte outside the array is whatever the heap holds there at the time.
ReadByte(i) ==
    IF i \in DOMAIN MEM
    THEN IF InBuffer(i) THEN {MEM[i]} ELSE {MEM[i]} \cup IndeterminateBytes
    ELSE IndeterminateBytes

\* An access outside the array is undefined behaviour; besides going through
\* it can end the process (a guarded or instrumented heap).
MayAbort(indices) == \E i \in indices : ~InBuffer(i)

WriteByte(mem, i, b) ==
    [j \in (DOMAIN mem) \cup {i} |-> IF j = i THEN b ELSE mem[j]]

\* validate_address with the last byte of the stack region let through.
address_in_stack_region_short(address) == address < STACK_SIZE - 1

\* Memory::validate_address
address_in_stack_region(address) == address < STACK_SIZE

\* push's test on the pointer itself instead of the pointer after the push.
push_is_error_late(sp) == sp > STACK_SIZE

\* pop's test written as a difference, which unsigned arithmetic never
\* finds negative.
pop_is_error_unsigned(sp) == ToUint8(sp - STACK_POINTER_SIZE) < 0

\* Memory::push's and Memory::pop's is_error arguments
push_is_error(sp) == sp + STACK_POINTER_SIZE > STACK_SIZE

pop_is_error(sp) == sp < STACK_POINTER_SIZE

\* Bitwise operators on non-negative integers.
RECURSIVE BitAnd(_, _)
BitAnd(a, b) ==
    IF a = 0 \/ b = 0 THEN 0
    ELSE (a % 2) * (b % 2) + 2 * BitAnd(a \div 2, b \div 2)

RECURSIVE BitOr(_, _)
BitOr(a, b) ==
    IF a = 0 THEN b
    ELSE IF b = 0 THEN a
    ELSE (IF a % 2 = 1 \/ b % 2 = 1 THEN 1 ELSE 0) + 2 * BitOr(a \div 2, b \div 2)

ShiftRight(a, n) == a \div (2 ^ n)

ShiftLeft(a, n) == a * (2 ^ n)

\* Memory::push's mask: static_cast<uint16_t>(get_memory_size()) - 1
memory_size == ToUint16(MEMORY_SIZE) - 1

\* The bytes Memory::push stores for a value.
LowByte(value) == ToUint8(BitAnd(value, memory_size))

HighByte(value) == ToUint8(BitAnd(ShiftRight(value, BITS_IN_BYTE), memory_size))

\* static_cast<uint16_t>((high << BITS_IN_BYTE) | low)
Word(low, high) == ToUint16(BitOr(ShiftLeft(high, BITS_IN_BYTE), low))

\* The bytes of a uint16_t in memory and back, through the uint16_t& that the
\* non-const Memory::operator[] returns (low byte first).
WordLow(value) == value % UINT8_MOD

WordHigh(value) == value \div UINT8_MOD

\* ------------------------------------------------------------------------
\* The dispatch loop (functools::exec)
\* ------------------------------------------------------------------------
Init0 ==
    /\ cursor = 0
    /\ line = <<>>
    /\ status = "RUNNING"
    /\ exit_status = -1
    /\ cerr = <<>>
    /\ cout = <<>>
    /\ registers = [r \in RegisterNames |-> 0]
    /\ MEM = <<>>
    /\ stack_pointer = 0
    /\ pushed = <<>>
    /\ first_run = <<>>

\* getline(file, line) succeeds
HasLine == status = "RUNNING" /\ cursor < Len(program)

raw == program[cursor + 1]

\* The line parses into an Instruction with this opcode.
Fetched(op) ==
    /\ HasLine
    /\ Decoded[raw].kind = "instruction"
    /\ Decoded[raw].opcode = op

\* The loop goes on to the next line.
Continue ==
    /\ cursor' = cursor + 1
    /\ line' = raw
    /\ UNCHANGED <<status, exit_status, cerr, first_run>>

\* The message written and the exit left out: the caller goes on.
Fatal_without_exit(message, address, token) ==
    /\ cursor' = cursor + 1
    /\ line' = raw
    /\ cerr' = Append(cerr, [message |-> message, address |-> address, token |-> token])
    /\ UNCHANGED <<status, exit_status, first_run>>

\* cerr << message ...; exit(FAILURE_EXIT_STATUS)
Fatal(message, address, token) ==
    /\ cursor' = cursor + 1
    /\ line' = raw
    /\ status' = "HALTED_ERROR"
    /\ exit_status' = FAILURE_EXIT_STATUS
    /\ cerr' = Append(cerr, [message |-> message, address |-> address, token |-> token])
    /\ UNCHANGED first_run

\* The process is ended abnormally: std::terminate, or a fault.
Abort ==
    /\ cursor' = cursor + 1
    /\ line' = raw
    /\ status' = "ABORTED"
    /\ exit_status' = ABORT_EXIT_STATUS
    /\ UNCHANGED <<cerr, first_run>>

\* The operand checks of the switch's cases.
Present(instr, i) == instr.operands[i] # nullptr

RegisterThenNumeric(instr) ==
    /\ Present(instr, 0) /\ Present(instr, 1)
    /\ instr.operands[0].type = "REGISTER"
    /\ instr.operands[1].type = "NUMERIC"

RegisterThenRegister(instr) ==
    /\ Present(instr, 0) /\ Present(instr, 1)
    /\ instr.operands[0].type = "REGISTER"
    /\ instr.operands[1].type = "REGISTER"

OneRegister(instr) ==
    /\ Present(instr, 0)
    /\ instr.operands[0].type = "REGISTER"

NumericThenRegister(instr) ==
    /\ Present(instr, 0) /\ Present(instr, 1)
    /\ instr.operands[0].type = "NUMERIC"
    /\ instr.operands[1].type = "REGISTER"

\* get_register_by_id's failure branch
InvalidRegister(id) == Fatal(INVALID_REGISTER_ID_ERROR, id, <<>>)

\* The assignment keeping only the low byte of the value.
SetRegister_low_byte(id, value) ==
    registers' = [registers EXCEPT ![get_register_by_id(id)] = value % UINT8_MOD]

SetRegister(id, value) ==
    registers' = [registers EXCEPT ![get_register_by_id(id)] = value]

ReadRegister(id) == registers[get_register_by_id(id)]

\* while (getline(file, line)) ends: exec returns and main returns success
Eof ==
    /\ status = "RUNNING"
    /\ cursor = Len(program)
    /\ status' = "HALTED_OK"
    /\ exit_status' = SUCCESS_EXIT_STATUS
    /\ UNCHANGED <<program, cursor, line, cerr, machine, first_run>>

\* The empty-line test leaving the loop (break) instead of going on.
SkipEmpty_breaks ==
    /\ HasLine
    /\ Decoded[raw].kind = "empty"
    /\ cursor' = cursor + 1
    /\ line' = raw
    /\ status' = "HALTED_OK"
    /\ exit_status' = SUCCESS_EXIT_STATUS
    /\ UNCHANGED <<program, cerr, machine, first_run>>

\* if (line.empty()) continue;
SkipEmpty ==
    /\ HasLine
    /\ Decoded[raw].kind = "empty"
    /\ Continue
    /\ UNCHANGED <<program, machine>>

\* parse_opcode: the mnemonic is not in OPCODES_MAP
UnknownOpcode ==
    /\ HasLine
    /\ Decoded[raw].kind = "unknown"
    /\ Fatal(UNKNOWN_OPCODE_ERROR, -1, opcode_token(raw))
    /\ UNCHANGED <<program, machine>>

\* std::stoi throws in Instruction::Instruction and nothing catches it
OperandThrow ==
    /\ HasLine
    /\ Decoded[raw].kind = "throws"
    /\ Abort
    /\ UNCHANGED <<program, machine>>

\* case Opcode::SETv
ExecSETv ==
    /\ Fetched("SETv")
    /\ LET instr == Decoded[raw]
           id == instr.operands[0].parsed
       IN  IF ~RegisterThenNumeric(instr)
           THEN Continue /\ UNCHANGED registers
           ELSE IF ~valid_register_id(id)
           THEN InvalidRegister(id) /\ UNCHANGED registers
           ELSE SetRegister(id, instr.operands[1].parsed) /\ Continue
    /\ UNCHANGED <<program, MEM, stack_pointer, cout, pushed>>

\* case Opcode::SETr
ExecSETr ==
    /\ Fetched("SETr")
    /\ LET instr == Decoded[raw]
           id1 == instr.operands[0].parsed
           id2 == instr.operands[1].parsed
       IN  IF ~RegisterThenRegister(instr)
           THEN Continue /\ UNCHANGED registers
           ELSE IF ~valid_register_id(id1)
           THEN InvalidRegister(id1) /\ UNCHANGED registers
           ELSE IF ~valid_register_id(id2)
           THEN InvalidRegister(id2) /\ UNCHANGED registers
           ELSE SetRegister(id1, ReadRegister(id2)) /\ Continue
    /\ UNCHANGED <<program, MEM, stack_pointer, cout, pushed>>

\* case Opcode::ADDv
ExecADDv ==
    /\ Fetched("ADDv")
    /\ LET instr == Decoded[raw]
           id == instr.operands[0].parsed
       IN  IF ~RegisterThenNumeric(instr)
           THEN Continue /\ UNCHANGED registers
           ELSE IF ~valid_register_id(id)
           THEN InvalidRegister(id) /\ UNCHANGED registers
           ELSE /\ SetRegister(id, RegisterAdd(ReadRegister(id), instr.operands[1].parsed))
                /\ Continue
    /\ UNCHANGED <<program, MEM, stack_pointer, cout, pushed>>

\* case Opcode::ADDr
ExecADDr ==
    /\ Fetched("ADDr")
    /\ LET instr == Decoded[raw]
           id1 == instr.operands[0].parsed
           id2 == instr.operands[1].parsed
       IN  IF ~RegisterThenRegister(instr)
           THEN Continue /\ UNCHANGED registers
           ELSE IF ~valid_register_id(id1)
           THEN InvalidRegister(id1) /\ UNCHANGED registers
           ELSE IF ~valid_register_id(id2)
           THEN InvalidRegister(id2) /\ UNCHANGED registers
           ELSE /\ SetRegister(id1, RegisterAdd(ReadRegister(id1), ReadRegister(id2)))
                /\ Continue
    /\ UNCHANGED <<program, MEM, stack_pointer, cout, pushed>>

\* case Opcode::SUBv
ExecSUBv ==
    /\ Fetched("SUBv")
    /\ LET instr == Decoded[raw]
           id == instr.operands[0].parsed
       IN  IF ~RegisterThenNumeric(instr)
           THEN Continue /\ UNCHANGED registers
           ELSE IF ~valid_register_id(id)
           THEN InvalidRegister(id) /\ UNCHANGED registers
           ELSE /\ SetRegister(id, RegisterSub(ReadRegister(id), instr.operands[1].parsed))
                /\ Continue
    /\ UNCHANGED <<program, MEM, stack_pointer, cout, pushed>>

\* case Opcode::SUBr
ExecSUBr ==
    /\ Fetched("SUBr")
    /\ LET instr == Decoded[raw]
           id1 == instr.operands[0].parsed
           id2 == instr.operands[1].parsed
       IN  IF ~RegisterThenRegister(instr)
           THEN Continue /\ UNCHANGED registers
           ELSE IF ~valid_register_id(id1)
           THEN InvalidRegister(id1) /\ UNCHANGED registers
           ELSE IF ~valid_register_id(id2)
           THEN InvalidRegister(id2) /\ UNCHANGED registers
           ELSE /\ SetRegister(id1, RegisterSub(ReadRegister(id1), ReadRegister(id2)))
                /\ Continue
    /\ UNCHANGED <<program, MEM, stack_pointer, cout, pushed>>

\* IFNZ's test inverted.
ifnz_skips_inverted(register_value) == register_value # NULL_INTEGER_VALUE

\* Whether IFNZ takes its skip: the register reads as zero.
ifnz_skips(register_value) == register_value = NULL_INTEGER_VALUE

\* IFNZ's getline leaving the file position where it was before the IFNZ
\* line was read.
SkipLine_rewinds ==
    /\ cursor' = cursor
    /\ line' = raw
    /\ UNCHANGED <<status, exit_status, cerr, first_run>>

\* IFNZ's getline(file, line): one more line is taken from the file if there
\* is one; at the end of the file getline leaves `line` empty.
SkipLine ==
    /\ cursor' = IF cursor + 2 <= Len(program) THEN cursor + 2 ELSE cursor + 1
    /\ line' = IF cursor + 2 <= Len(program) THEN program[cursor + 2] ELSE <<>>
    /\ UNCHANGED <<status, exit_status, cerr, first_run>>

\* case Opcode::IFNZ
ExecIFNZ ==
    /\ Fetched("IFNZ")
    /\ LET instr == Decoded[raw]
           id == instr.operands[0].parsed
       IN  IF ~OneRegister(instr)
           THEN Continue
           ELSE IF ~valid_register_id(id)
           THEN InvalidRegister(id)
           ELSE IF ifnz_skips(ReadRegister(id))
           THEN SkipLine
           ELSE Continue
    /\ UNCHANGED <<program, machine>>

\* PRINT streaming the operand's id instead of the register's value.
print_line_of_id(id) == Dec(id)

\* cout << static_cast<uint16_t>(*reg) << endl: the line written is the
\* decimal numeral of the register's value.
print_line(id) == Dec(ReadRegister(id))

\* case Opcode::PRINT
ExecPRINT ==
    /\ Fetched("PRINT")
    /\ LET instr == Decoded[raw]
           id == instr.operands[0].parsed
       IN  IF ~OneRegister(instr)
           THEN Continue /\ UNCHANGED cout
           ELSE IF ~valid_register_id(id)
           THEN InvalidRegister(id) /\ UNCHANGED cout
           ELSE cout' = Append(cout, print_line(id)) /\ Continue
    /\ UNCHANGED <<program, registers, MEM, stack_pointer, pushed>>

\* case Opcode::PUSH, with Memory::push
ExecPUSH ==
    /\ Fetched("PUSH")
    /\ LET instr == Decoded[raw]
           id == instr.operands[0].parsed
           value == ReadRegister(id)
       IN  IF ~OneRegister(instr)
           THEN Continue /\ UNCHANGED <<MEM, stack_pointer, pushed>>
           ELSE IF ~valid_register_id(id)
           THEN InvalidRegister(id) /\ UNCHANGED <<MEM, stack_pointer, pushed>>
           ELSE IF push_is_error(stack_pointer)
           THEN /\ Fatal(STACK_OVERFLOW_ERROR, -1, <<>>)
                /\ UNCHANGED <<MEM, stack_pointer, pushed>>
           ELSE \/ /\ MEM' = WriteByte(WriteByte(MEM, stack_pointer, LowByte(value)),
                                       stack_pointer + 1, HighByte(value))
                   /\ stack_pointer' = ToUint8(stack_pointer + STACK_POINTER_SIZE)
                   /\ pushed' = Append(pushed, value)
                   /\ Continue
                \/ /\ MayAbort({stack_pointer, stack_pointer + 1})
                   /\ Abort
                   /\ UNCHANGED <<MEM, stack_pointer, pushed>>
    /\ UNCHANGED <<program, registers, cout>>

\* case Opcode::POP, with Memory::pop
ExecPOP ==
    /\ Fetched("POP")
    /\ LET instr == Decoded[raw]
           id == instr.operands[0].parsed
           sp == ToUint8(stack_pointer - STACK_POINTER_SIZE)
       IN  IF ~OneRegister(instr)
           THEN Continue /\ UNCHANGED <<registers, stack_pointer, pushed>>
           ELSE IF ~valid_register_id(id)
           THEN InvalidRegister(id) /\ UNCHANGED <<registers, stack_pointer, pushed>>
           ELSE IF pop_is_error(stack_pointer)
           THEN /\ Fatal(STACK_UNDERFLOW_ERROR, -1, <<>>)
                /\ UNCHANGED <<registers, stack_pointer, pushed>>
           ELSE \/ /\ \E low \in ReadByte(sp), high \in ReadByte(sp + 1) :
                          SetRegister(id, Word(low, high))
                   /\ stack_pointer' = sp
                   /\ pushed' = SubSeq(pushed, 1, Len(pushed) - 1)
                   /\ Continue
                \/ /\ MayAbort({sp, sp + 1})
                   /\ stack_pointer' = sp
                   /\ Abort
                   /\ UNCHANGED <<registers, pushed>>
    /\ UNCHANGED <<program, MEM, cout>>

\* case Opcode::LOAD, with the non-const Memory::operator[] (RAM is not const)
ExecLOAD ==
    /\ Fetched("LOAD")
    /\ LET instr == Decoded[raw]
           id == instr.operands[1].parsed
           address == ToUint8(instr.operands[0].parsed)
       IN  IF ~NumericThenRegister(instr)
           THEN Continue /\ UNCHANGED registers
           ELSE IF ~valid_register_id(id)
           THEN InvalidRegister(id) /\ UNCHANGED registers
           ELSE IF address_in_stack_region(address)
           THEN /\ Fatal(WRITING_TO_STACK_REGION_ERROR, address, <<>>)
                /\ UNCHANGED registers
           ELSE \/ /\ \E low \in ReadByte(address), high \in ReadByte(address + 1) :
                          SetRegister(id, high * UINT8_MOD + low)
                   /\ Continue
                \/ /\ MayAbort({address, address + 1})
                   /\ Abort
                   /\ UNCHANGED registers
    /\ UNCHANGED <<program, MEM, stack_pointer, cout, pushed>>

\* case Opcode::STORE, with the non-const Memory::operator[]
ExecSTORE ==
    /\ Fetched("STORE")
    /\ LET instr == Decoded[raw]
           id == instr.operands[1].parsed
           address == ToUint8(instr.operands[0].parsed)
           value == ReadRegister(id)
       IN  IF ~NumericThenRegister(instr)
           THEN Continue /\ UNCHANGED MEM
           ELSE IF ~valid_register_id(id)
           THEN InvalidRegister(id) /\ UNCHANGED MEM
           ELSE IF address_in_stack_region(address)
           THEN /\ Fatal(WRITING_TO_STACK_REGION_ERROR, address, <<>>)
                /\ UNCHANGED MEM
           ELSE \/ /\ MEM' = WriteByte(WriteByte(MEM, address, WordLow(value)),
                                       address + 1, WordHigh(value))
                   /\ Continue
                \/ /\ MayAbort({address, address + 1})
                   /\ Abort
                   /\ UNCHANGED MEM
    /\ UNCHANGED <<program, registers, stack_pointer, cout, pushed>>

Next ==
    \/ Eof
    \/ SkipEmpty
    \/ UnknownOpcode
    \/ OperandThrow
    \/ ExecSETv
    \/ ExecSETr
    \/ ExecADDv
    \/ ExecADDr
    \/ ExecSUBv
    \/ ExecSUBr
    \/ ExecIFNZ
    \/ ExecPRINT
    \/ ExecPUSH
    \/ ExecPOP
    \/ ExecLOAD
    \/ ExecSTORE

\* ------------------------------------------------------------------------
\* Specifications: the loop run on each family of program texts
\* ------------------------------------------------------------------------
Init == program \in ControlPrograms /\ Init0

Spec == Init /\ [][Next]_vars

InitArith == program \in ArithPrograms /\ Init0

SpecArith == InitArith /\ [][Next]_vars

InitStack == program \in StackPrograms /\ Init0

SpecStack == InitStack /\ [][Next]_vars

InitHeap == program \in HeapPrograms /\ Init0

SpecHeap == InitHeap /\ [][Next]_vars

InitOperands == program \in OperandPrograms /\ Init0

SpecOperands == InitOperands /\ [][Next]_vars

InitRegisters == program \in RegisterPrograms /\ Init0

SpecRegisters == InitRegisters /\ [][Next]_vars

InitImmediates == program \in ImmediatePrograms /\ Init0

SpecImmediates == InitImmediates /\ [][Next]_vars

InitFields == program \in FieldPrograms /\ Init0

SpecFields == InitFields /\ [][Next]_vars

\* The program text without its empty lines.
Strip(text) == SelectSeq(text, LAMBDA l : l # <<>>)

\* What a finished run leaves: how the process ended, what it wrote, and the
\* registers and memory at that point.
Outcome ==
    [status |-> status, exit_status |-> exit_status, cerr |-> cerr,
     cout |-> cout, registers |-> registers, MEM |-> MEM,
     stack_pointer |-> stack_pointer]

\* The process has ended on a text with empty lines and no IFNZ: main is run
\* again, from the state after construction, on the text without them, and
\* the outcome of the first run is kept for comparison.
Rerun ==
    /\ status # "RUNNING"
    /\ first_run = <<>>
    /\ \E i \in 1..Len(program) : program[i] = <<>>
    /\ \A i \in 1..Len(program) : Decoded[program[i]].opcode # "IFNZ"
    /\ first_run' = <<Outcome>>
    /\ program' = Strip(program)
    /\ cursor' = 0
    /\ line' = <<>>
    /\ status' = "RUNNING"
    /\ exit_status' = -1
    /\ cerr' = <<>>
    /\ cout' = <<>>
    /\ registers' = [r \in RegisterNames |-> 0]
    /\ MEM' = <<>>
    /\ stack_pointer' = 0
    /\ pushed' = <<>>

NextBlank == Next \/ Rerun

InitBlank == program \in ControlPrograms /\ Init0

SpecBlank == InitBlank /\ [][NextBlank]_vars

\* ------------------------------------------------------------------------
\* Properties
\* ------------------------------------------------------------------------
\* The instruction about to be executed, and its operand checks.
Instr == Decoded[raw]

Dest0 == get_register_by_id(Instr.operands[0].parsed)

Dest1 == get_register_by_id(Instr.operands[1].parsed)

LastError == cerr[Len(cerr)]

\* The second operand's value of an arithmetic instruction: the immediate,
\* or the value of the source register.
SourceValue(op) ==
    IF op \in {"SETv", "ADDv", "SUBv"} THEN Instr.operands[1].parsed
    ELSE registers[Dest1]

WellFormed(op) ==
    /\ Fetched(op)
    /\ CASE op \in {"SETv", "ADDv", "SUBv"} -> RegisterThenNumeric(Instr)
         [] op \in {"SETr", "ADDr", "SUBr"} -> RegisterThenRegister(Instr)
         [] op \in {"IFNZ", "PRINT", "PUSH", "POP"} -> OneRegister(Instr)
         [] OTHER -> NumericThenRegister(Instr)

\* C1: for every register value x and increment y, ADDv/ADDr leaves the
\* destination register at x + y when x + y <= 65535 and at 65535 otherwise;
\* the result never wraps modulo 65536.
C1_AddSaturates ==
    [][\A op \in {"ADDv", "ADDr"} :
         WellFormed(op) =>
            LET x == registers[Dest0]
                y == SourceValue(op)
            IN  /\ status' = "RUNNING"
                /\ registers'[Dest0] = IF x + y <= 65535 THEN x + y ELSE 65535]_vars

\* C1 witness: an addition whose exact sum exceeds 65535 has been executed.
C1_Witness ==
    /\ status = "RUNNING"
    /\ cursor = 2
    /\ program[1] = L3(T_SETv, Ra, Dec(40000))
    /\ program[2] = L3(T_ADDv, Ra, Dec(30000))
    /\ registers[Ra] = 65535

\* C2: for every register value x and decrement y, SUBv/SUBr leaves the
\* destination register at x - y when y <= x and at 0 otherwise.
C2_SubSaturates ==
    [][\A op \in {"SUBv", "SUBr"} :
         WellFormed(op) =>
            LET x == registers[Dest0]
                y == SourceValue(op)
            IN  /\ status' = "RUNNING"
                /\ registers'[Dest0] = IF y <= x THEN x - y ELSE 0]_vars

\* C2 witness: a subtraction of more than the register holds has been
\* executed.
C2_Witness ==
    /\ status = "RUNNING"
    /\ cursor = 2
    /\ program[1] = L3(T_SETv, Ra, Dec(1))
    /\ program[2] = L3(T_SUBv, Ra, Dec(30000))
    /\ registers[Ra] = 0

\* C3: in every reachable state, failed PUSH and POP attempts included, the
\* stack pointer is even and lies in [0, 16].
C3_StackPointerRange ==
    /\ stack_pointer % 2 = 0
    /\ stack_pointer >= 0
    /\ stack_pointer <= 16

\* C3 witness: a PUSH has failed on a full stack.
C3_Witness ==
    /\ status = "HALTED_ERROR"
    /\ stack_pointer = 16
    /\ LastError.message = STACK_OVERFLOW_ERROR

\* C4: the stack is LIFO: in an error-free run every POP returns the value of
\* the most recent PUSH that has not been popped yet, whatever instructions
\* are interleaved.
C4_Lifo ==
    [][(WellFormed("POP") /\ Len(pushed) > 0 /\ status' = "RUNNING")
          => registers'[Dest0] = pushed[Len(pushed)]]_vars

\* C5: a PUSH fails, with the stack-overflow error, exactly when
\* stack_pointer + 2 > 16; otherwise it succeeds and advances the pointer, so
\* that eight pushes on an empty stack succeed and the ninth fails.
C5_PushFailsExactlyWhenFull ==
    [][WellFormed("PUSH") =>
          IF stack_pointer + 2 > 16
          THEN /\ status' = "HALTED_ERROR"
               /\ cerr'[Len(cerr')].message = STACK_OVERFLOW_ERROR
          ELSE /\ status' = "RUNNING"
               /\ stack_pointer' = stack_pointer + 2]_vars

\* C6: a POP executed with stack_pointer < 2 fails with the stack-underflow
\* error and gives no value to the register.
C6_PopUnderflow ==
    [][(WellFormed("POP") /\ stack_pointer < 2) =>
          /\ status' = "HALTED_ERROR"
          /\ exit_status' = 1
          /\ cerr'[Len(cerr')].message = STACK_UNDERFLOW_ERROR
          /\ registers' = registers
          /\ stack_pointer' = stack_pointer]_vars

\* C6 witness: a POP has failed on an empty stack.
C6_Witness ==
    /\ status = "HALTED_ERROR"
    /\ LastError.message = STACK_UNDERFLOW_ERROR
    /\ Decoded[line].opcode = "POP"
    /\ stack_pointer = 0

\* No line of the program is an IFNZ, so every line taken was executed.
NoIfnz ==
    \A i \in 1..Len(program) : Decoded[program[i]].opcode # "IFNZ"

\* C7: STORE addr r followed by LOAD addr r2, for addr in [16, 255), leaves
\* r2 equal to the value stored.
C7_StoreLoadRoundTrip ==
    \A n \in 16..254 :
        (/\ status \in {"RUNNING", "HALTED_OK"}
         /\ NoIfnz
         /\ cursor >= 2
         /\ program[cursor - 1] = L3(T_STORE, Dec(n), Ra)
         /\ program[cursor] = L3(T_LOAD, Dec(n), Rb))
        => registers[Rb] = registers[Ra]

\* C8: a LOAD or STORE whose 8-bit address is in 0..15 fails with a fatal
\* stack-region violation and changes no byte of memory and no register.
C8_StackRegionRejected ==
    [][\A op \in {"LOAD", "STORE"} :
         (WellFormed(op) /\ Instr.operands[0].parsed % 256 < 16) =>
            /\ status' = "HALTED_ERROR"
            /\ exit_status' = 1
            /\ cerr'[Len(cerr')].message \in
                   {WRITING_TO_STACK_REGION_ERROR, READING_FROM_STACK_REGION_ERROR}
            /\ MEM' = MEM
            /\ registers' = registers
            /\ stack_pointer' = stack_pointer]_vars

\* C8 witness: a LOAD whose operand truncates to an address inside the stack
\* region has been rejected.
C8_Witness ==
    /\ status = "HALTED_ERROR"
    /\ line = L3(T_LOAD, Dec(261), Rb)
    /\ LastError.address = 5

\* C9: IFNZ r with r = 0 takes exactly one following line from the file and
\* discards it whatever it holds, and the loop goes on after it; IFNZ r with
\* r # 0 discards nothing.
C9_IfnzSkipsOneLine ==
    [][WellFormed("IFNZ") =>
          /\ status' = "RUNNING"
          /\ cerr' = cerr
          /\ machine' = machine
          /\ cursor' = IF registers[Dest0] = 0
                       THEN (IF cursor + 2 <= Len(program) THEN cursor + 2
                             ELSE Len(program))
                       ELSE cursor + 1]_vars

\* C9 witness: a line with an unknown mnemonic has been skipped by an IFNZ
\* and the loop is still running after it.
C9_Witness ==
    /\ status = "RUNNING"
    /\ cursor = 2
    /\ program[1] = L2(T_IFNZ, Ra)
    /\ program[2] = L2(<<"F", "O", "O">>, <<"x">>)
    /\ line = program[2]

\* C10: a line that lacks an operand its opcode requires moves the executor
\* to HALTED_ERROR with the "nullptr operand" error.
RequiresSecond(op) ==
    op \in {"SETv", "SETr", "ADDv", "ADDr", "SUBv", "SUBr", "LOAD", "STORE"}

C10_MissingOperandFatal ==
    [][(/\ HasLine
        /\ Instr.kind = "instruction"
        /\ \/ ~Present(Instr, 0)
           \/ RequiresSecond(Instr.opcode) /\ ~Present(Instr, 1))
          => /\ status' = "HALTED_ERROR"
             /\ cerr'[Len(cerr')].message = NULLPTR_OPERAND_ERROR]_vars

\* The operands the opcode of the line requires are all there.
OperandsPresent ==
    /\ Present(Instr, 0)
    /\ RequiresSecond(Instr.opcode) => Present(Instr, 1)

\* The line parses, has the operands its opcode requires, and one of them is
\* of a kind the opcode does not take.
KindMismatch ==
    /\ HasLine
    /\ Instr.kind = "instruction"
    /\ OperandsPresent
    /\ ~WellFormed(Instr.opcode)

\* C11: an instruction whose operand kinds do not match its opcode moves the
\* executor to HALTED_ERROR and changes no register, memory byte or stack
\* pointer.
C11_KindMismatchFatal ==
    [][KindMismatch =>
          /\ status' = "HALTED_ERROR"
          /\ registers' = registers
          /\ MEM' = MEM
          /\ stack_pointer' = stack_pointer]_vars

\* C12: a non-blank line the loop reaches whose first field is not one of the
\* 12 mnemonics moves the executor to HALTED_ERROR with exit status 1 and the
\* "unknown opcode" message naming that field; after it no line is executed
\* and no register, memory byte or output changes.
C12_UnknownOpcodeHalts ==
    [][/\ (HasLine /\ Instr.kind = "unknown") =>
             /\ status' = "HALTED_ERROR"
             /\ exit_status' = 1
             /\ cerr'[Len(cerr')].message = "Unknown opcode: "
             /\ cerr'[Len(cerr')].token = split(raw, " ")[1]
             /\ machine' = machine
       /\ status = "HALTED_ERROR" => UNCHANGED vars]_vars

\* C12 witness: the loop has stopped at an unknown mnemonic with lines of the
\* program still unread, after an instruction that changed a register.
C12_Witness ==
    /\ status = "HALTED_ERROR"
    /\ LastError.message = UNKNOWN_OPCODE_ERROR
    /\ line = L2(<<"F", "O", "O">>, <<"x">>)
    /\ cursor = 2
    /\ Len(program) > cursor
    /\ registers[Ra] = 1

\* A token that is a run of one or more decimal digits.
IsUnsignedDecimal(token) ==
    /\ Len(token) > 0
    /\ \A i \in 1..Len(token) : IsDigit(token[i])

\* The line has, in one of the two fields after the mnemonic, a token that
\* is neither a register symbol nor an unsigned decimal integer.
HasMalformedOperand(l) ==
    LET tokens == split(l, " ")
    IN  \E i \in 2..3 :
            /\ i <= Len(tokens)
            /\ tokens[i] \notin {<<"a">>, <<"b">>, <<"c">>, <<"d">>}
            /\ ~IsUnsignedDecimal(tokens[i])

MalformedOperand == [l \in ProgramLines |-> HasMalformedOperand(l)]

\* C13: an operand token that is neither a register symbol nor a valid
\* unsigned decimal integer is a fatal parse error: the run ends with exit
\* status 1 and the instruction has no effect.
C13_MalformedOperandFatal ==
    [][(HasLine /\ Instr.kind \in {"instruction", "throws"} /\ MalformedOperand[raw]) =>
          /\ status' = "HALTED_ERROR"
          /\ exit_status' = 1
          /\ machine' = machine]_vars

\* The line the loop is about to take meets one of the fatal conditions: an
\* unknown mnemonic, a malformed operand, an operand missing or of the wrong
\* kind, a heap access inside the stack region, a PUSH on a full stack or a
\* POP on an empty one.
FatalCondition ==
    /\ HasLine
    /\ \/ Instr.kind = "unknown"
       \/ Instr.kind \in {"instruction", "throws"} /\ MalformedOperand[raw]
       \/ Instr.kind = "instruction" /\ ~OperandsPresent
       \/ KindMismatch
       \/ \E op \in {"LOAD", "STORE"} :
              WellFormed(op) /\ Instr.operands[0].parsed % 256 < 16
       \/ WellFormed("PUSH") /\ stack_pointer + 2 > 16
       \/ WellFormed("POP") /\ stack_pointer < 2

\* C14: the process exit status is 0 exactly when the executor ends in
\* HALTED_OK, and 1 whenever a fatal condition occurred.
C14_ExitStatus ==
    [][/\ exit_status' = 0 <=> status' = "HALTED_OK"
       /\ FatalCondition => (status' = "HALTED_ERROR" /\ exit_status' = 1)]_vars

\* C15: a LOAD or STORE at address 255 is rejected with an error and changes
\* nothing, and no word access touches byte 256 or any byte outside [0, 256).
C15_LastAddressRejected ==
    [][/\ \A op \in {"LOAD", "STORE"} :
             (WellFormed(op) /\ Instr.operands[0].parsed % 256 = 255) =>
                /\ status' = "HALTED_ERROR"
                /\ cerr' # cerr
                /\ MEM' = MEM
                /\ registers' = registers
       /\ \A i \in DOMAIN MEM' : i >= 0 /\ i < 256]_vars

\* C16: the memory buffer has a capacity of exactly 256 bytes, so that every
\* byte index used by PUSH/POP (0..15) and by heap word accesses (16..255)
\* lies inside the allocated buffer.
C16_BufferHolds256 ==
    \A i \in DOMAIN MEM :
        i \in 0..255 => (nbytes = 256 /\ InBuffer(i))

\* C17: memory is zero-initialized: a LOAD from a heap address in [16, 255)
\* neither of whose two bytes has been written sets the destination register
\* to 0.
C17_UnwrittenReadsZero ==
    [][(/\ WellFormed("LOAD")
        /\ Instr.operands[0].parsed % 256 \in 16..254
        /\ Instr.operands[0].parsed % 256 \notin DOMAIN MEM
        /\ (Instr.operands[0].parsed % 256) + 1 \notin DOMAIN MEM
        /\ status' = "RUNNING")
          => registers'[Dest1] = 0]_vars

\* C18: a LOAD with an address below 16 fails with the "reading from stack
\* region" error and a STORE with an address below 16 fails with the
\* "writing to stack region" error, each reporting the offending address.
C18_StackRegionMessages ==
    [][/\ (WellFormed("LOAD") /\ Instr.operands[0].parsed % 256 < 16) =>
             /\ status' = "HALTED_ERROR"
             /\ cerr'[Len(cerr')].message = "Error: reading from stack region "
             /\ cerr'[Len(cerr')].address = Instr.operands[0].parsed % 256
       /\ (WellFormed("STORE") /\ Instr.operands[0].parsed % 256 < 16) =>
             /\ status' = "HALTED_ERROR"
             /\ cerr'[Len(cerr')].message = "Error: writing to stack region "
             /\ cerr'[Len(cerr')].address = Instr.operands[0].parsed % 256]_vars

\* C19: the address of a LOAD/STORE is the parsed immediate operand n
\* truncated to 8 bits: the access is rejected as a stack-region violation
\* exactly when n mod 256 < 16, and otherwise it is the word at bytes
\* n mod 256 and n mod 256 + 1 that is written or read.
C19_AddressTruncated ==
    [][\A op \in {"LOAD", "STORE"} :
         WellFormed(op) =>
            LET n == Instr.operands[0].parsed
                a == n % 256
            IN  IF a < 16
                THEN /\ status' = "HALTED_ERROR"
                     /\ cerr'[Len(cerr')].address = a
                ELSE /\ status' # "HALTED_ERROR"
                     /\ (op = "STORE" /\ status' = "RUNNING") =>
                           /\ DOMAIN MEM' = (DOMAIN MEM) \cup {a, a + 1}
                           /\ MEM'[a] = registers[Dest1] % 256
                           /\ MEM'[a + 1] = registers[Dest1] \div 256
                           /\ \A i \in (DOMAIN MEM) \ {a, a + 1} : MEM'[i] = MEM[i]
                     /\ (op = "LOAD" /\ status' = "RUNNING") =>
                           \E low \in ReadByte(a), high \in ReadByte(a + 1) :
                               registers'[Dest1] = high * 256 + low]_vars

\* C19 witness: STORE 276 has written the word at bytes 20 and 21, and a
\* LOAD 20 has read it back.
C19_Witness ==
    /\ status = "RUNNING"
    /\ cursor = 3
    /\ program[2] = L3(T_STORE, Dec(276), Ra)
    /\ program[3] = L3(T_LOAD, Dec(20), Rb)
    /\ DOMAIN MEM = {20, 21}
    /\ MEM[20] = 7
    /\ registers[Rb] = 7

\* Some line of the program reads memory: with no byte of memory inside the
\* allocated array, what such a line reads is not determined by the text.
ReadsMemory ==
    \E i \in 1..Len(program) : Decoded[program[i]].opcode \in {"POP", "LOAD"}

\* The run on the text without its empty lines has ended as the run on the
\* text as given did.
SameOutcome ==
    (/\ first_run # <<>>
     /\ status # "RUNNING"
     /\ status # "ABORTED"
     /\ first_run[1].status # "ABORTED"
     /\ ~ReadsMemory)
    => Outcome = first_run[1]

\* C20: an empty line is skipped with no change to any register, memory
\* byte, stack pointer or output; removing all empty lines from a program
\* that contains no IFNZ does not change its final state or output.
C20_EmptyLinesIgnored ==
    [][/\ (HasLine /\ raw = <<>>) =>
             /\ status' = "RUNNING"
             /\ cursor' = cursor + 1
             /\ cerr' = cerr
             /\ registers' = registers
             /\ MEM' = MEM
             /\ stack_pointer' = stack_pointer
             /\ cout' = cout
       /\ SameOutcome']_vars

\* C20 witness: a program with empty lines between its instructions has run
\* to the end of the file, and so has the same text without them, with the
\* same output.
C20_Witness ==
    /\ first_run # <<>>
    /\ status = "HALTED_OK"
    /\ first_run[1].status = "HALTED_OK"
    /\ program = <<L3(T_SETv, Rb, Dec(1)), L2(T_PRINT, Rb)>>
    /\ cout = <<Dec(1)>>
    /\ first_run[1].cout = <<Dec(1)>>

\* The fields of each line of the program texts.
Tokens == [l \in ProgramLines |-> split(l, " ")]

\* The register the text of the line names in field i (the mnemonic is field
\* 1), whatever the parser made of it.
NamedRegister(i) == Tokens[raw][i]

\* C21: standard output changes only at PRINT: an executed PRINT appends the
\* decimal value the register it names holds at that point, and a step of any
\* other opcode, or a PRINT that is not executed, appends nothing.
C21_OutputOnlyAtPrint ==
    [][IF WellFormed("PRINT")
       THEN cout' = Append(cout, Dec(registers[NamedRegister(2)]))
       ELSE cout' = cout]_vars

\* C21 witness: a run with two PRINTs of the same register, before and after
\* it was set, has ended with the two values in program order.
C21_Witness ==
    /\ status = "HALTED_OK"
    /\ program = <<L2(T_PRINT, Rb), L3(T_SETv, Rb, Dec(1)), L2(T_PRINT, Rb)>>
    /\ cout = << <<"0">>, <<"1">> >>

\* C22: execution of every finite program terminates in HALTED_OK or
\* HALTED_ERROR: every step of the loop takes at least one line, the cursor
\* never moves backward, and the only states a run stops in are HALTED_OK
\* (end of file) and HALTED_ERROR (first fatal error).
C22_TerminatesHalted ==
    [][/\ cursor' >= cursor
       /\ cursor' <= Len(program)
       /\ status' = "RUNNING" => cursor' > cursor
       /\ status' \in {"RUNNING", "HALTED_OK", "HALTED_ERROR"}]_vars

\* C23: once a fatal error has been raised the executor stays in
\* HALTED_ERROR: a step that writes an error message ends in HALTED_ERROR,
\* and from HALTED_ERROR no line is taken and the status, the registers, the
\* memory, the stack pointer and standard output never change again.
C23_ErrorIsFinal ==
    [][/\ cerr' # cerr => status' = "HALTED_ERROR"
       /\ status = "HALTED_ERROR" =>
             /\ status' = "HALTED_ERROR"
             /\ cursor' = cursor
             /\ registers' = registers
             /\ MEM' = MEM
             /\ stack_pointer' = stack_pointer
             /\ cout' = cout]_vars

\* C23 witness: a PUSH on a full stack has raised the stack-overflow error
\* with two lines of the program still unread.
C23_Witness ==
    /\ status = "HALTED_ERROR"
    /\ LastError.message = STACK_OVERFLOW_ERROR
    /\ Len(program) = cursor + 2
    /\ Cardinality(DOMAIN MEM) = 16

\* The lexical rank the claim gives each register symbol.
Rank(s) ==
    CASE s = <<"a">> -> 0
      [] s = <<"b">> -> 1
      [] s = <<"c">> -> 2
      [] s = <<"d">> -> 3

\* C24: register operand encoding is consistent: the parser encodes each
\* symbol as its lexical rank, and lookup by that rank reaches the register
\* of that name: SETv s v and SETr s t write the register the text names s
\* (from the register it names t), and PRINT s reads it.
C24_RankMatchesName ==
    [][/\ \A op \in {"SETv", "SETr", "PRINT"} :
             WellFormed(op) =>
                /\ Instr.operands[0].parsed = Rank(NamedRegister(2))
                /\ get_register_by_id(Rank(NamedRegister(2))) = NamedRegister(2)
       /\ WellFormed("SETv") =>
             registers'[NamedRegister(2)] = Instr.operands[1].parsed
       /\ WellFormed("SETr") =>
             /\ Instr.operands[1].parsed = Rank(NamedRegister(3))
             /\ registers'[NamedRegister(2)] = registers[NamedRegister(3)]
       /\ WellFormed("PRINT") =>
             cout' = Append(cout, Dec(registers[NamedRegister(2)]))]_vars

\* C24 witness: register d was written by name in a SETv, copied to a by a
\* SETr, and the copy was read by a PRINT.
C24_Witness ==
    /\ status = "HALTED_OK"
    /\ program = <<L3(T_SETv, Rd, Dec(7)), L3(T_SETr, Ra, Rd), L2(T_PRINT, Ra)>>
    /\ registers[Rd] = 7
    /\ registers[Ra] = 7
    /\ cout = <<Dec(7)>>

\* C25: SETv r v followed by a read of r observes exactly v, read by PRINT r
\* or as the source of a SETr, for values up to 65535; and every register
\* reads 0 before any instruction has written it.
C25_AssignThenRead ==
    /\ \A r \in {Ra, Rb, Rc, Rd} :
           (cursor = 1 /\ status = "RUNNING" /\ program[1] = L2(T_PRINT, r))
           => cout = <<Dec(0)>>
    /\ \A r \in {Ra, Rb, Rc, Rd}, v \in RegisterValues :
           (/\ cursor >= 2
            /\ status = "RUNNING"
            /\ NoIfnz
            /\ program[cursor - 1] = L3(T_SETv, r, Dec(v)))
           => /\ program[cursor] = L2(T_PRINT, r) => cout[Len(cout)] = Dec(v)
              /\ \A t \in {Ra, Rb, Rc, Rd} :
                     program[cursor] = L3(T_SETr, t, r) => registers[t] = v

\* C25 witness: 65535 was assigned to c and read back by a PRINT.
C25_Witness ==
    /\ status = "RUNNING"
    /\ cursor = 2
    /\ program[1] = L3(T_SETv, Rc, Dec(65535))
    /\ program[2] = L2(T_PRINT, Rc)
    /\ cout = <<Dec(65535)>>

\* The indices of the bytes a step writes or changes.
ChangedBytes ==
    {i \in DOMAIN MEM' : i \notin DOMAIN MEM \/ MEM'[i] # MEM[i]}

\* C26: the stack and heap regions never interfere: a successful STORE
\* changes only bytes at indices >= 16 and leaves the bytes of [0, 16) and
\* the stack pointer unchanged; a successful PUSH changes at most two bytes,
\* both inside [0, 16), and leaves every heap byte unchanged.
C26_RegionsDisjoint ==
    [][/\ (WellFormed("STORE") /\ status' = "RUNNING") =>
             /\ \A i \in ChangedBytes : i >= 16
             /\ \A i \in DOMAIN MEM : i \in DOMAIN MEM'
             /\ \A i \in 0..15 : ReadByte(i)' = ReadByte(i)
             /\ stack_pointer' = stack_pointer
       /\ (WellFormed("PUSH") /\ status' = "RUNNING") =>
             /\ ChangedBytes \subseteq {stack_pointer, stack_pointer + 1}
             /\ \A i \in ChangedBytes : i >= 0 /\ i < 16
             /\ \A i \in DOMAIN MEM : i \in DOMAIN MEM'
             /\ \A i \in DOMAIN MEM : i >= 16 => MEM'[i] = MEM[i]]_vars

\* C26 witness: with two words on the stack and a word stored at address 20,
\* a third PUSH has been executed and the stored word is still there.
C26_Witness ==
    /\ status = "RUNNING"
    /\ stack_pointer = 6
    /\ DOMAIN MEM = {0, 1, 2, 3, 4, 5, 20, 21}
    /\ MEM[20] = 3
    /\ MEM[21] = 1
    /\ MEM[4] = 4

\* C27: the line cursor only moves forward: every iteration of the loop
\* advances it by exactly one line, except an IFNZ whose register is 0, which
\* advances it by two, or to the end of the file when the IFNZ is the last
\* line; the run then ends in HALTED_OK without an error message.
C27_CursorForward ==
    [][/\ cursor' = IF ~HasLine THEN cursor
                    ELSE IF /\ WellFormed("IFNZ")
                            /\ registers[Dest0] = 0
                            /\ cursor + 2 <= Len(program)
                    THEN cursor + 2
                    ELSE cursor + 1
       /\ (WellFormed("IFNZ") /\ registers[Dest0] = 0 /\ cursor + 1 = Len(program)) =>
             /\ cursor' = Len(program)
             /\ status' = "RUNNING"
             /\ cerr' = cerr
       /\ (status = "RUNNING" /\ cursor = Len(program)) =>
             /\ status' = "HALTED_OK"
             /\ exit_status' = SUCCESS_EXIT_STATUS
             /\ cerr' = cerr]_vars

\* C27 witness: a run whose last line is an IFNZ on a zero register has ended
\* in HALTED_OK with nothing written to the error stream.
C27_Witness ==
    /\ status = "HALTED_OK"
    /\ Len(program) = 2
    /\ program[1] = L3(T_SETv, Ra, Dec(0))
    /\ program[2] = L2(T_IFNZ, Ra)
    /\ cursor = 2
    /\ line = <<>>
    /\ cerr = <<>>

\* C28: a PUSH that fails with stack overflow and a POP that fails with stack
\* underflow leave the stack pointer and every memory byte as they were
\* before the failing instruction: the check precedes any write and any
\* update of the pointer.
C28_FailedStackOpKeepsState ==
    [][/\ ((WellFormed("PUSH") /\ stack_pointer + 2 > 16)
           \/ (WellFormed("POP") /\ stack_pointer < 2)) =>
             /\ status' = "HALTED_ERROR"
             /\ stack_pointer' = stack_pointer
             /\ MEM' = MEM
       /\ ((WellFormed("PUSH") \/ WellFormed("POP")) /\ status' = "HALTED_ERROR") =>
             /\ cerr'[Len(cerr')].message
                   \in {STACK_OVERFLOW_ERROR, STACK_UNDERFLOW_ERROR}
             /\ stack_pointer' = stack_pointer
             /\ MEM' = MEM
             /\ \A i \in 0..15 : ReadByte(i)' = ReadByte(i)]_vars

\* C28 witness: after a PUSH and a POP, a second POP has failed on the empty
\* stack, and the two bytes the PUSH wrote are still in place.
C28_Witness ==
    /\ status = "HALTED_ERROR"
    /\ LastError.message = STACK_UNDERFLOW_ERROR
    /\ stack_pointer = 0
    /\ DOMAIN MEM = {0, 1}
    /\ MEM[0] = 1
    /\ MEM[1] = 2

\* C29: in every reachable state the stack pointer equals twice the number
\* of successful PUSHes minus successful POPs executed so far, and the bytes
\* below the stack pointer hold the pushed words that have not been popped
\* yet, in push order, low byte first.
C29_StackImage ==
    /\ stack_pointer = 2 * Len(pushed)
    /\ \A k \in 1..Len(pushed) :
          /\ ReadByte(2 * k - 2) = {pushed[k] % 256}
          /\ ReadByte(2 * k - 1) = {pushed[k] \div 256}

\* The registers whose value a step changes.
ChangedRegisters ==
    {r \in DOMAIN registers : registers'[r] # registers[r]}

\* The field of the line (the mnemonic is field 1) that names the register
\* the opcode may write, or 0 when the opcode writes no register.
DestinationField(op) ==
    CASE op \in {"SETv", "SETr", "ADDv", "ADDr", "SUBv", "SUBr", "POP"} -> 2
      [] op = "LOAD" -> 3
      [] OTHER -> 0

\* C30: no instruction changes a register other than its destination:
\* SETv/SETr/ADDv/ADDr/SUBv/SUBr/POP change at most the register their first
\* operand names, LOAD changes at most the register its second operand
\* names, and IFNZ, PRINT, PUSH and STORE change no register at all.
C30_OnlyDestinationChanges ==
    [][LET field == IF HasLine /\ Instr.kind = "instruction"
                    THEN DestinationField(Instr.opcode)
                    ELSE 0
       IN  IF field > 0 /\ Len(Tokens[raw]) >= field
           THEN ChangedRegisters \subseteq {NamedRegister(field)}
           ELSE ChangedRegisters = {}]_vars

\* C30 witness: three POPs and a LOAD have each written the register they
\* name, and only that one.
C30_Witness ==
    /\ program = Lifo3
    /\ status = "RUNNING"
    /\ cursor = Len(Lifo3)
    /\ registers[Ra] = 259
    /\ registers[Rb] = 260
    /\ registers[Rc] = 259
    /\ registers[Rd] = 258

\* The 8-bit address a LOAD or STORE line uses.
HeapAddress == Instr.operands[0].parsed % 256

\* C31: word packing is little-endian at byte granularity: STORE addr r with
\* r = v sets byte addr to v mod 256 and byte addr + 1 to v div 256 and
\* changes no other byte, and a LOAD addr yields the byte at addr plus 256
\* times the byte at addr + 1, so that after STORE addr r1 and
\* STORE addr+1 r2 it yields (v1 mod 256) + 256 * (v2 mod 256).
C31_LittleEndianBytes ==
    [][/\ (WellFormed("STORE") /\ status' = "RUNNING") =>
             /\ MEM'[HeapAddress] = registers[Dest1] % 256
             /\ MEM'[HeapAddress + 1] = registers[Dest1] \div 256
             /\ ChangedBytes \subseteq {HeapAddress, HeapAddress + 1}
             /\ \A i \in DOMAIN MEM : i \in DOMAIN MEM'
       /\ (/\ WellFormed("LOAD")
           /\ status' = "RUNNING"
           /\ HeapAddress <= 254
           /\ HeapAddress \in DOMAIN MEM
           /\ HeapAddress + 1 \in DOMAIN MEM) =>
             registers'[Dest1] = MEM[HeapAddress] + 256 * MEM[HeapAddress + 1]
       /\ (/\ program = Overlap
           /\ cursor = 4
           /\ status' = "RUNNING") =>
             registers'[Rb] = (4660 % 256) + 256 * (43981 % 256)]_vars

\* The integer the text of the line writes in field i, when std::stoi
\* accepts the field.
NamedInteger(i) == stoi(Tokens[raw][i]).value

\* C32: an immediate operand token whose decimal value n lies outside
\* 0..65535 but parses as an integer is not rejected: the operand value used
\* is n mod 65536, so that ADDv a 70000 adds 4464 and SETv a 65536 sets a
\* to 0.
C32_ImmediateWraps ==
    [][\A op \in {"SETv", "ADDv", "SUBv"} :
         WellFormed(op) =>
            LET x == registers[NamedRegister(2)]
                m == NamedInteger(3) % 65536
            IN  /\ status' = "RUNNING"
                /\ cerr' = cerr
                /\ registers'[NamedRegister(2)] =
                      CASE op = "SETv" -> m
                        [] op = "ADDv" -> IF x + m <= 65535 THEN x + m ELSE 65535
                        [] op = "SUBv" -> IF x >= m THEN x - m ELSE 0]_vars

\* C32 witness: SETv a 65536 has set a to 0 and ADDv a 70000 has then added
\* 4464.
C32_Witness ==
    /\ status = "RUNNING"
    /\ cursor = 3
    /\ program[1] = L3(T_SETv, Ra, Dec(7))
    /\ program[2] = L3(T_SETv, Ra, Dec(65536))
    /\ program[3] = L3(T_ADDv, Ra, Dec(70000))
    /\ registers[Ra] = 4464

\* The line made of the first n fields of a line.
RECURSIVE Join(_, _)
Join(tokens, n) ==
    IF n = 1 THEN tokens[1]
    ELSE Join(tokens, n - 1) \o <<DELIMITER_SYMBOL>> \o tokens[n]

\* The operand slots of the instruction that hold an operand.
PopulatedSlots == {i \in 0..1 : Instr.operands[i] # nullptr}

\* C33: the parser populates the operand slots positionally from at most
\* the two fields after the mnemonic: slot 1 is populated only if slot 0 is,
\* the number of populated slots is min(2, fields - 1), fields beyond the
\* third are ignored, and an unpopulated slot is absent rather than
\* defaulted to a register or to zero.
C33_SlotsPositional ==
    [][(HasLine /\ Instr.kind = "instruction") =>
          LET fields == Len(Tokens[raw])
          IN  /\ 1 \in PopulatedSlots => 0 \in PopulatedSlots
              /\ Cardinality(PopulatedSlots) = IF fields - 1 < 2 THEN fields - 1 ELSE 2
              /\ \A i \in PopulatedSlots :
                    Instr.operands[i] = ParseOperand(Tokens[raw][i + 2])
              /\ \A i \in (0..1) \ PopulatedSlots :
                    Instr.operands[i].type \notin {"REGISTER", "NUMERIC"}
              /\ fields > 3 => Instr = Decode(Join(Tokens[raw], 3))
              /\ (\/ 0 \notin PopulatedSlots
                  \/ 1 \notin PopulatedSlots /\ RequiresSecond(Instr.opcode)) =>
                    /\ status' = "RUNNING"
                    /\ registers' = registers
                    /\ MEM' = MEM
                    /\ stack_pointer' = stack_pointer
                    /\ cout' = cout]_vars

\* C33 witness: a line of four fields whose fourth is no number has been
\* executed as its first three fields, after a line of one field that did
\* nothing.
C33_Witness ==
    /\ status = "RUNNING"
    /\ cursor = 2
    /\ program[1] = L1(T_PUSH)
    /\ program[2] = L4(T_SETv, Rb, Dec(6), <<"x", "1">>)
    /\ registers[Rb] = 6
    /\ stack_pointer = 0

\* C34: every register-typed operand the parser produces has a rank in
\* 0..3, so for every program text the register lookup by rank succeeds and
\* the "invalid register ID" fatal error is unreachable from the executor.
C34_RegisterLookupSucceeds ==
    [][/\ (HasLine /\ Instr.kind = "instruction") =>
             \A i \in PopulatedSlots :
                 Instr.operands[i].type = "REGISTER" =>
                    /\ Instr.operands[i].parsed \in 0..3
                    /\ Tokens[raw][i + 2] \in DOMAIN registers
       /\ \A k \in 1..Len(cerr') : cerr'[k].message # INVALID_REGISTER_ID_ERROR]_vars

\* C34 witness: the register of the highest rank has been written and read
\* and nothing was written to the error stream.
C34_Witness ==
    /\ status = "HALTED_OK"
    /\ program = <<L3(T_SETv, Rd, Dec(65535)), L2(T_PRINT, Rd), L2(T_PRINT, Rc)>>
    /\ cout = <<Dec(65535), Dec(0)>>
    /\ cerr = <<>>

====
